---- MODULE Spec2Model ----
(***************************************************************************)
(* EcoVision AI service: the waste class mapper (inference/mapper.py), the *)
(* image codec (utils/image_io.py), the model lifecycle and the /detect    *)
(* request pipeline (main.py), with the detector and segmenter adapters    *)
(* (inference/detector.py, inference/segmenter.py) as nondeterministic     *)
(* capabilities.                                                           *)
(*                                                                         *)
(* Text is modelled as a sequence of one-character strings, so that        *)
(* str.lower(), dict lookup and the `in` substring test are computed.      *)
(***************************************************************************)
EXTENDS Integers, Sequences, FiniteSets, TLC

\* ---------------------------------------------------------------- state
VARIABLES
    phase,      \* lifespan: "created" (before startup), "serving", "stopped"
    detector,   \* global detector: None or the YOLOv10Detector
    segmenter,  \* global segmenter: None or the SAM2Segmenter
    pc,         \* the /detect handler: "idle", or "reading" (suspended at
                \* `await image.read()`)
    req,        \* parameters of the /detect request being or last handled
    calls,      \* what that request invoked: detector (and whether detect
                \* raised, or what it returned), mapper, segmenter
    response,   \* the response last sent and not yet taken by the client
    given,      \* WasteMapper alone: the detection dict handed to it
    mapped,     \* WasteMapper alone: what map_detection returned
    previous,   \* WasteMapper alone: what the call before returned
    segment_args,   \* SAM2Segmenter.segment alone: the call's inputs
    segment_result  \* SAM2Segmenter.segment alone: its return or its raise

server_vars == <<phase, detector, segmenter, pc, req, calls, response>>
mapper_vars == <<given, mapped, previous>>
segment_vars == <<segment_args, segment_result>>
vars == <<phase, detector, segmenter, pc, req, calls, response,
          given, mapped, previous, segment_args, segment_result>>

\* ---------------------------------------------------------------- bounds
\* Longest detection list the detector returns in the model.
MaxDetections == 2
\* Most letters of a synonym-table key written in upper case in a raw label.
MaxUpper == 2

\* ---------------------------------------------------------------- Python values
\* Python's None where an object (a record) is expected.
None == [tag |-> "None"]
\* Python's None where a str (a category name) is expected.
NoneStr == "<None>"

\* Truth value of an Optional[str]: None and "" are falsy.
Truthy(s) == s /= NoneStr /\ s /= ""

\* dict.get(key, default) on a record: a detection dict may lack keys.
Get(d, k, default) == IF k \in DOMAIN d THEN d[k] ELSE default

\* A dict literal is a sequence of [key, value] in insertion order.
DictHas(dict, k) == \E i \in 1..Len(dict) : dict[i].key = k

DictGet(dict, k, default) ==
    IF DictHas(dict, k)
    THEN dict[CHOOSE i \in 1..Len(dict) : dict[i].key = k].value
    ELSE default

Min(S) == CHOOSE m \in S : \A n \in S : m <= n

\* ---------------------------------------------------------------- str
upper_to_lower ==
    ("A" :> "a") @@ ("B" :> "b") @@ ("C" :> "c") @@ ("D" :> "d") @@ ("E" :> "e") @@
    ("F" :> "f") @@ ("G" :> "g") @@ ("H" :> "h") @@ ("I" :> "i") @@ ("J" :> "j") @@
    ("K" :> "k") @@ ("L" :> "l") @@ ("M" :> "m") @@ ("N" :> "n") @@ ("O" :> "o") @@
    ("P" :> "p") @@ ("Q" :> "q") @@ ("R" :> "r") @@ ("S" :> "s") @@ ("T" :> "t") @@
    ("U" :> "u") @@ ("V" :> "v") @@ ("W" :> "w") @@ ("X" :> "x") @@ ("Y" :> "y") @@
    ("Z" :> "z")

UpperChars == DOMAIN upper_to_lower

LowerChar(c) == IF c \in UpperChars THEN upper_to_lower[c] ELSE c

UpperChar(c) ==
    IF \E u \in UpperChars : upper_to_lower[u] = c
    THEN CHOOSE u \in UpperChars : upper_to_lower[u] = c
    ELSE c

\* str.lower()
lower(s) == [i \in 1..Len(s) |-> LowerChar(s[i])]

\* Python's `needle in hay` on str: the empty string is in every string.
Contains(needle, hay) ==
    \E i \in 0..(Len(hay) - Len(needle)) :
        SubSeq(hay, i + 1, i + Len(needle)) = needle

\* ---------------------------------------------------------------- WasteMapper tables
class_mapping ==
    << [key |-> <<"b", "o", "t", "t", "l", "e">>, value |-> "plastic_bottle"],
       [key |-> <<"p", "l", "a", "s", "t", "i", "c", "_", "b", "o", "t", "t", "l", "e">>, value |-> "plastic_bottle"],
       [key |-> <<"w", "a", "t", "e", "r", "_", "b", "o", "t", "t", "l", "e">>, value |-> "plastic_bottle"],
       [key |-> <<"p", "e", "t", "_", "b", "o", "t", "t", "l", "e">>, value |-> "plastic_bottle"],
       [key |-> <<"w", "r", "a", "p", "p", "e", "r">>, value |-> "plastic_wrapper"],
       [key |-> <<"p", "l", "a", "s", "t", "i", "c", "_", "w", "r", "a", "p", "p", "e", "r">>, value |-> "plastic_wrapper"],
       [key |-> <<"b", "a", "g">>, value |-> "plastic_wrapper"],
       [key |-> <<"p", "l", "a", "s", "t", "i", "c", "_", "b", "a", "g">>, value |-> "plastic_wrapper"],
       [key |-> <<"c", "u", "p">>, value |-> "paper_cup"],
       [key |-> <<"p", "a", "p", "e", "r", "_", "c", "u", "p">>, value |-> "paper_cup"],
       [key |-> <<"p", "a", "p", "e", "r">>, value |-> "paper_cup"],
       [key |-> <<"c", "a", "r", "d", "b", "o", "a", "r", "d">>, value |-> "cardboard_box"],
       [key |-> <<"c", "a", "r", "d", "b", "o", "a", "r", "d", "_", "b", "o", "x">>, value |-> "cardboard_box"],
       [key |-> <<"b", "o", "x">>, value |-> "cardboard_box"],
       [key |-> <<"f", "o", "o", "d">>, value |-> "food_waste"],
       [key |-> <<"f", "o", "o", "d", "_", "w", "a", "s", "t", "e">>, value |-> "food_waste"],
       [key |-> <<"o", "r", "g", "a", "n", "i", "c">>, value |-> "food_waste"],
       [key |-> <<"b", "a", "n", "a", "n", "a">>, value |-> "food_waste"],
       [key |-> <<"a", "p", "p", "l", "e">>, value |-> "food_waste"],
       [key |-> <<"g", "l", "a", "s", "s">>, value |-> "glass_bottle"],
       [key |-> <<"g", "l", "a", "s", "s", "_", "b", "o", "t", "t", "l", "e">>, value |-> "glass_bottle"],
       [key |-> <<"b", "o", "t", "t", "l", "e", "_", "g", "l", "a", "s", "s">>, value |-> "glass_bottle"],
       [key |-> <<"c", "a", "n">>, value |-> "metal_can"],
       [key |-> <<"m", "e", "t", "a", "l", "_", "c", "a", "n">>, value |-> "metal_can"],
       [key |-> <<"a", "l", "u", "m", "i", "n", "u", "m">>, value |-> "metal_can"],
       [key |-> <<"t", "i", "n">>, value |-> "metal_can"],
       [key |-> <<"c", "l", "o", "t", "h">>, value |-> "cloth"],
       [key |-> <<"f", "a", "b", "r", "i", "c">>, value |-> "cloth"],
       [key |-> <<"t", "e", "x", "t", "i", "l", "e">>, value |-> "cloth"],
       [key |-> <<"c", "l", "o", "t", "h", "i", "n", "g">>, value |-> "cloth"] >>

disposal_instructions ==
    << [key |-> "plastic_bottle",
        value |-> "Rinse and place in recycling bin. Remove caps if required locally."],
       [key |-> "plastic_wrapper",
        value |-> "Check local guidelines. Most thin plastic wrappers go in general waste."],
       [key |-> "paper_cup",
        value |-> "Remove plastic lining if possible. Place in paper recycling or general waste."],
       [key |-> "food_waste",
        value |-> "Compost if available, otherwise place in organic waste bin."],
       [key |-> "glass_bottle",
        value |-> "Rinse and place in glass recycling bin. Remove labels if required."],
       [key |-> "metal_can",
        value |-> "Rinse and place in metal recycling bin. Crush to save space."],
       [key |-> "cardboard_box",
        value |-> "Flatten and place in paper/cardboard recycling bin."],
       [key |-> "cloth",
        value |-> "Donate if usable, otherwise place in textile recycling or general waste."] >>

reuse_ideas ==
    << [key |-> "plastic_bottle",
        value |-> << "Cut and use as plant propagation containers",
                      "Create DIY watering globes for potted plants",
                      "Transform into storage containers for small items" >>],
       [key |-> "plastic_wrapper",
        value |-> << "Use as protective wrap for fragile items during moving",
                      "Create DIY waterproof covers for outdoor items",
                      "Repurpose as temporary storage bags" >>],
       [key |-> "paper_cup",
        value |-> << "Use as seed starter pots (biodegradable)",
                      "Create small organizers for desk supplies",
                      "Use for arts and crafts projects" >>],
       [key |-> "food_waste",
        value |-> << "Compost to create nutrient-rich soil",
                      "Use vegetable scraps to make homemade stock",
                      "Regrow vegetables from scraps (e.g., green onions, lettuce)" >>],
       [key |-> "glass_bottle",
        value |-> << "Repurpose as decorative vases or candle holders",
                      "Use for storing homemade preserves or oils",
                      "Create DIY table lamps or pendant lights" >>],
       [key |-> "metal_can",
        value |-> << "Use as planters for small herbs or succulents",
                      "Create rustic utensil holders or organizers",
                      "Transform into candle lanterns with decorative holes" >>],
       [key |-> "cardboard_box",
        value |-> << "Use as drawer dividers or closet organizers",
                      "Create storage boxes for seasonal items",
                      "Repurpose as play structures or forts for children" >>],
       [key |-> "cloth",
        value |-> << "Cut into rags for cleaning",
                      "Create patchwork quilts or blankets",
                      "Transform into reusable shopping bags or totes" >>] >>

dustbin_mapping ==
    << [key |-> "plastic_bottle", value |-> "Blue Bin"],
       [key |-> "plastic_wrapper", value |-> "Red Bin"],
       [key |-> "paper_cup", value |-> "Blue Bin"],
       [key |-> "food_waste", value |-> "Green Bin"],
       [key |-> "glass_bottle", value |-> "Blue Bin"],
       [key |-> "metal_can", value |-> "Blue Bin"],
       [key |-> "cardboard_box", value |-> "Blue Bin"],
       [key |-> "cloth", value |-> "Yellow Bin"] >>

\* ---------------------------------------------------------------- WasteMapper
\* Mutant: the default is a name outside the category table.
DefaultClass_Unknown == "unknown"

\* The category every miss resolves to.
DefaultClass == "plastic_bottle"

\* Mutant: the exact lookup is skipped, so containment decides alone.
ExactMatch_Skipped(raw_class) == NoneStr

\* self.class_mapping.get(raw_class)
ExactMatch(raw_class) == DictGet(class_mapping, raw_class, NoneStr)

\* Mutant: the loop does not break, so the last matching key decides.
PartialMatch_LastMatch(raw_class) ==
    LET hits == { i \in 1..Len(class_mapping) :
                    \/ Contains(class_mapping[i].key, raw_class)
                    \/ Contains(raw_class, class_mapping[i].key) }
    IN  IF hits = {} THEN NoneStr
        ELSE class_mapping[CHOOSE i \in hits : \A j \in hits : j <= i].value

\* The partial-matching loop: the first key, in insertion order, that is in
\* the label or that the label is in.
PartialMatch(raw_class) ==
    LET hits == { i \in 1..Len(class_mapping) :
                    \/ Contains(class_mapping[i].key, raw_class)
                    \/ Contains(raw_class, class_mapping[i].key) }
    IN  IF hits = {} THEN NoneStr ELSE class_mapping[Min(hits)].value

\* The waste class map_detection settles on for a lowercased raw label.
WasteClass(raw_class) ==
    LET exact    == ExactMatch(raw_class)
        matched  == IF ~Truthy(exact) THEN PartialMatch(raw_class) ELSE exact
    IN  IF ~Truthy(matched) THEN DefaultClass ELSE matched

map_detection(detection) ==
    LET raw_class   == lower(Get(detection, "class_name", <<>>))
        waste_class == WasteClass(raw_class)
    IN  [ class      |-> waste_class,
          confidence |-> Get(detection, "confidence", 0),
          bbox       |-> Get(detection, "bbox", <<0, 0, 0, 0>>),
          class_id   |-> Get(detection, "class_id", 0),
          disposal   |-> DictGet(disposal_instructions, waste_class,
                                 "Check local guidelines."),
          ideas      |-> DictGet(reuse_ideas, waste_class, <<>>),
          dustbin    |-> DictGet(dustbin_mapping, waste_class, "Blue Bin") ]

\* Mutant: the classes are read off the synonym table's values.
get_all_classes_FromSynonyms ==
    [i \in 1..Len(class_mapping) |-> class_mapping[i].value]

\* list(self.disposal_instructions.keys())
get_all_classes ==
    [i \in 1..Len(disposal_instructions) |-> disposal_instructions[i].key]

\* ---------------------------------------------------------------- utils/image_io.py
\* Byte strings, by what the pipeline can tell apart: b"" (falsy), bytes that
\* PIL cannot open, and the bytes of an image.
EmptyBytes == ""
JunkBytes  == "junk"
ImageBytes == "image"
ByteStrings == {EmptyBytes, JunkBytes, ImageBytes}

\* A str holding base64 text is the sequence of its comma-separated pieces.
\* A piece is the base64 text of a byte string (of b"": the empty piece),
\* "badpad" (text b64decode rejects: incorrect padding) or
\* "data:image/jpeg;base64", the head of a data URL: b64decode drops its
\* ":" and ";" and decodes the 20 characters left to bytes that are no image.
B64Of(bytes) == <<"b64", bytes>>
BadPad  == <<"badpad">>
UrlHead == <<"data:image/jpeg;base64">>
Pieces == {B64Of(b) : b \in ByteStrings} \cup {BadPad, UrlHead}

\* The empty str: one empty piece.
EmptyStr == [pieces |-> <<B64Of(EmptyBytes)>>]

\* base64.b64decode of one piece: the bytes, or an exception.
b64decode(piece) ==
    IF piece[1] = "b64"
    THEN [raised |-> FALSE, bytes |-> piece[2]]
    ELSE IF piece = UrlHead
    THEN [raised |-> FALSE, bytes |-> JunkBytes]
    ELSE [raised |-> TRUE, bytes |-> EmptyBytes]

\* decode_image: drop the data URL prefix ("," in s: s.split(",")[1]), then
\* b64decode; any failure is re-raised as ValueError.
decode_image(base64_string) ==
    LET s == IF Len(base64_string.pieces) > 1
             THEN base64_string.pieces[2]
             ELSE base64_string.pieces[1]
    IN  b64decode(s)

\* A mask returned by the segmenter: what it holds and the box it was
\* computed for.  A "malformed" array is one PIL cannot turn into an image.
MaskOf(kind, bbox) == [kind |-> kind, bbox |-> bbox]

\* encode_mask_to_base64: the PNG data URL of the mask, or an exception.
encode_mask_to_base64(mask) ==
    IF mask.kind = "malformed"
    THEN [raised |-> TRUE, value |-> None]
    ELSE [raised |-> FALSE,
          value  |-> [data_url |-> "data:image/png;base64", png |-> mask]]

\* ---------------------------------------------------------------- inference/detector.py
\* _load_yolov8_fallback on the object under construction: self.model and
\* self.model_name are set together, or RuntimeError is raised and the
\* object is left as it was.
load_yolov8_fallback(self, env) ==
    IF env.ultralytics /\ env.yolov8 = "ok"
    THEN [raised |-> FALSE,
          self   |-> [self EXCEPT !.model = "yolov8n.pt", !.model_name = "yolov8n"]]
    ELSE [raised |-> TRUE, self |-> self]

\* Mutant: weights that YOLO() loads but that have no names table are kept,
\* and _load_yolov10 returns without a model_name and without the fallback.
load_yolov10_KeepsUnverified(self, env) ==
    IF ~env.ultralytics
    THEN load_yolov8_fallback(self, env)
    ELSE IF env.yolo = "ok"
    THEN [raised |-> FALSE,
          self   |-> [self EXCEPT !.model = "yolov10e.pt", !.model_name = "yolov10e"]]
    ELSE IF env.yolo = "no_names"
    THEN [raised |-> FALSE, self |-> [self EXCEPT !.model = "yolov10e.pt"]]
    ELSE IF env.yolov10_class = "ok"
    THEN [raised |-> FALSE,
          self   |-> [self EXCEPT !.model = "yolov10e.pt", !.model_name = "yolov10e"]]
    ELSE load_yolov8_fallback(self, env)

\* _load_yolov10.  Without ultralytics the import fails and the torch-load
\* section ends in the fallback.  YOLO(path) loading weights with a names
\* table gives "yolov10e"; weights without one stay in self.model while the
\* code falls through to the fallback; when YOLO(path) raises, the YOLOv10
\* class is tried, and when that is missing or raises every handler on the
\* way out ends in the fallback.
load_yolov10(self, env) ==
    IF ~env.ultralytics
    THEN load_yolov8_fallback(self, env)
    ELSE IF env.yolo = "ok"
    THEN [raised |-> FALSE,
          self   |-> [self EXCEPT !.model = "yolov10e.pt", !.model_name = "yolov10e"]]
    ELSE IF env.yolo = "no_names"
    THEN load_yolov8_fallback([self EXCEPT !.model = "yolov10e.pt"], env)
    ELSE IF env.yolov10_class = "ok"
    THEN [raised |-> FALSE,
          self   |-> [self EXCEPT !.model = "yolov10e.pt", !.model_name = "yolov10e"]]
    ELSE load_yolov8_fallback(self, env)

\* _detect_device
detect_device(cuda) == IF cuda THEN "cuda" ELSE "cpu"

\* YOLOv10Detector.__init__: the detector object, or None when it raises.
\* self.model is the weights file held, self.model_name the name recorded.
YOLOv10Detector(env, cuda) ==
    LET created == [device |-> detect_device(cuda), model |-> NoneStr,
                    model_name |-> NoneStr]
        loaded  == IF env.weights THEN load_yolov10(created, env)
                   ELSE load_yolov8_fallback(created, env)
    IN  IF loaded.raised THEN None ELSE loaded.self

DetectorEnvs ==
    [ weights       : BOOLEAN,
      ultralytics   : BOOLEAN,
      yolo          : {"ok", "no_names", "raise"},
      yolov10_class : {"ok", "missing", "raise"},
      yolov8        : {"ok", "raise"} ]

\* The boxes and class ids the loaded model can report, and its names table.
BBoxes == { <<10, 10, 50, 50>>, <<20, 30, 60, 90>> }
names ==
    (0 :> <<"p", "e", "r", "s", "o", "n">>) @@ (41 :> <<"c", "u", "p">>)
ClassIds == DOMAIN names

Detections ==
    { [bbox |-> b, confidence |-> 90, class_id |-> c, class_name |-> names[c]] :
        b \in BBoxes, c \in ClassIds }

DetectionLists ==
    UNION { [1..n -> Detections] : n \in 0..MaxDetections }

\* YOLOv10Detector.detect: Image.open fails on bytes that are no image; an
\* image gives a list of detections, or the inference raises.
detect(image_data) ==
    IF image_data # ImageBytes
    THEN { [raised |-> TRUE, detections |-> <<>>] }
    ELSE { [raised |-> TRUE, detections |-> <<>>] } \cup
         { [raised |-> FALSE, detections |-> d] : d \in DetectionLists }

\* ---------------------------------------------------------------- inference/segmenter.py
\* SAM2Segmenter.__init__: the segmenter object, or None when it raises
\* (weights missing, SAM2 and SAM v1 both missing, or the build failing).
SAM2Segmenter(env, cuda) ==
    IF /\ env.weights
       /\ \/ env.sam2 = "ok"
          \/ env.sam2 = "missing" /\ env.sam1 = "ok"
    THEN [device |-> detect_device(cuda)]
    ELSE None

SegmenterEnvs ==
    [ weights : BOOLEAN,
      sam2    : {"ok", "missing", "raise"},
      sam1    : {"ok", "missing", "raise"} ]

\* SAM2Segmenter.segment for one box: a mask ("object"), the all-zero mask
\* of its except branch ("zeros"), an array that cannot be encoded
\* ("malformed"), or an exception raised outside its try ("raise").
SegmentOutcomes == {"object", "zeros", "malformed", "raise"}

segment(bbox, outcome) ==
    IF outcome = "raise"
    THEN [raised |-> TRUE, mask |-> None]
    ELSE [raised |-> FALSE, mask |-> MaskOf(outcome, bbox)]

\* The bytes of a second image, of another size, and the (height, width) of
\* the two images.
WideImageBytes == "wide_image"
IsImage(bytes) == bytes \in {ImageBytes, WideImageBytes}
ImageSize(bytes) == IF bytes = WideImageBytes THEN <<480, 640>> ELSE <<640, 480>>

\* Mutant: segment without its try/except: a failing prediction propagates.
SAM2Segmenter_segment_NoExcept(self, image_data, bbox, prediction) ==
    IF self.predictor = None
    THEN [raised |-> TRUE, error |-> "RuntimeError", mask |-> None, shape |-> None]
    ELSE IF ~IsImage(image_data)
    THEN [raised |-> TRUE, error |-> "UnidentifiedImageError", mask |-> None,
          shape |-> None]
    ELSE IF self.predictor.api # "set_image"
    THEN [raised |-> TRUE, error |-> "NotImplementedError", mask |-> None,
          shape |-> None]
    ELSE IF prediction \in {"raise", "no_mask"}
    THEN [raised |-> TRUE, error |-> "Exception", mask |-> None, shape |-> None]
    ELSE IF prediction = "malformed"
    THEN [raised |-> FALSE, error |-> NoneStr,
          mask |-> MaskOf("malformed", bbox), shape |-> None]
    ELSE [raised |-> FALSE, error |-> NoneStr,
          mask |-> MaskOf("object", bbox), shape |-> ImageSize(image_data)]

\* SAM2Segmenter.segment by its inputs (lines 107-160): self.predictor (None,
\* or a predictor with or without set_image), the image bytes, the box, and
\* what predictor.predict does ("mask": a mask of the image's size; "raise";
\* "no_mask": an empty masks array, so masks[0] raises; "malformed": an
\* array that is no 2-D mask).  RuntimeError is raised for a missing
\* predictor (118-119) and Image.open (122) is outside the try; the try
\* (131-160) turns every failure inside it into np.zeros((h, w)).
SAM2Segmenter_segment(self, image_data, bbox, prediction) ==
    IF self.predictor = None
    THEN [raised |-> TRUE, error |-> "RuntimeError", mask |-> None, shape |-> None]
    ELSE IF ~IsImage(image_data)
    THEN [raised |-> TRUE, error |-> "UnidentifiedImageError", mask |-> None,
          shape |-> None]
    ELSE IF self.predictor.api # "set_image"
    THEN [raised |-> FALSE, error |-> NoneStr,
          mask |-> MaskOf("zeros", bbox), shape |-> ImageSize(image_data)]
    ELSE IF prediction \in {"raise", "no_mask"}
    THEN [raised |-> FALSE, error |-> NoneStr,
          mask |-> MaskOf("zeros", bbox), shape |-> ImageSize(image_data)]
    ELSE IF prediction = "malformed"
    THEN [raised |-> FALSE, error |-> NoneStr,
          mask |-> MaskOf("malformed", bbox), shape |-> None]
    ELSE [raised |-> FALSE, error |-> NoneStr,
          mask |-> MaskOf("object", bbox), shape |-> ImageSize(image_data)]

\* ---------------------------------------------------------------- main.py: requests
NoRequest  == [endpoint |-> "none"]
NoResponse == [endpoint |-> "none"]
NoCalls ==
    [detect |-> 0, raised |-> FALSE, detected |-> <<>>, map |-> <<>>,
     segment |-> <<>>]

\* The `image` upload and the `image_base64` form field a client can send.
Uploads ==
    {None} \cup { [filename |-> "photo.jpg", content |-> b] : b \in ByteStrings }

\* Plain base64 text, or a data URL ("data:image/jpeg;base64," before it).
Base64Fields ==
    {None} \cup { [pieces |-> <<p>>] : p \in Pieces }
           \cup { [pieces |-> <<UrlHead, p>>] : p \in {B64Of(ImageBytes), BadPad} }

\* The image sources of a request: an upload, a form field, neither, or both.
ImageSources ==
    { [image |-> u, image_base64 |-> None] : u \in Uploads } \cup
    { [image |-> None, image_base64 |-> f] : f \in Base64Fields } \cup
    { [image |-> u, image_base64 |-> [pieces |-> <<p>>]] :
        u \in Uploads \ {None}, p \in {B64Of(ImageBytes), BadPad} }

\* Truth value of the Optional[str] form field: None and "" are falsy.
TruthyStr(s) == s # None /\ s # EmptyStr

\* ---------------------------------------------------------------- main.py: /detect
HTTPException(status_code, detail) ==
    [endpoint |-> "/detect", status |-> status_code, body |-> [detail |-> detail]]

\* Mutant: the readiness check is gone.
DetectorMissing_Unchecked(d) == FALSE

\* `if not detector` (lines 123-127)
DetectorMissing(d) == d = None

\* Mutant: the input errors are raised inside the try block, whose
\* `except Exception` turns them into 500.
ReadInput_InsideTry(image, image_base64) ==
    IF image # None
    THEN [kind |-> "await"]
    ELSE IF TruthyStr(image_base64)
    THEN LET decoded == decode_image(image_base64)
         IN  IF decoded.raised
             THEN [kind  |-> "error",
                   error |-> HTTPException(500, "Detection failed: 400: Invalid base64 image: ...")]
             ELSE [kind |-> "data", image_data |-> decoded.bytes]
    ELSE [kind  |-> "error",
          error |-> HTTPException(500, "Detection failed: 400: No image provided. Send 'image' file or 'image_base64' string.")]

\* Mutant: a request with both sources is refused.
ReadInput_ExactlyOne(image, image_base64) ==
    IF image # None /\ TruthyStr(image_base64)
    THEN [kind  |-> "error",
          error |-> HTTPException(400, "Provide either 'image' or 'image_base64', not both.")]
    ELSE IF image # None
    THEN [kind |-> "await"]
    ELSE IF TruthyStr(image_base64)
    THEN LET decoded == decode_image(image_base64)
         IN  IF decoded.raised
             THEN [kind  |-> "error",
                   error |-> HTTPException(400, "Invalid base64 image: ...")]
             ELSE [kind |-> "data", image_data |-> decoded.bytes]
    ELSE [kind  |-> "error",
          error |-> HTTPException(400, "No image provided. Send 'image' file or 'image_base64' string.")]

\* Lines 129-145: where image_data comes from.  An upload is awaited; a
\* base64 field is decoded at once; with neither, or with a field that does
\* not decode, the handler raises 400 before its try block.
ReadInput(image, image_base64) ==
    IF image # None
    THEN [kind |-> "await"]
    ELSE IF TruthyStr(image_base64)
    THEN LET decoded == decode_image(image_base64)
         IN  IF decoded.raised
             THEN [kind  |-> "error",
                   error |-> HTTPException(400, "Invalid base64 image: ...")]
             ELSE [kind |-> "data", image_data |-> decoded.bytes]
    ELSE [kind  |-> "error",
          error |-> HTTPException(400, "No image provided. Send 'image' file or 'image_base64' string.")]

\* One turn of the segmentation loop (lines 173-179): the encoded mask, or
\* None when segment or encode_mask_to_base64 raises.
MaskEntry(det, outcome) ==
    LET s == segment(det.bbox, outcome)
        e == encode_mask_to_base64(s.mask)
    IN  IF s.raised \/ e.raised THEN None ELSE e.value

\* Mutant: a mask is appended only when it was computed; a failure appends
\* nothing.
Masks_OnlyComputed(seg, segmentation, detections, outcomes) ==
    IF segmentation /\ seg # None
    THEN SelectSeq([i \in 1..Len(detections) |->
                       MaskEntry(detections[i], outcomes[i])],
                   LAMBDA m : m # None)
    ELSE IF segmentation /\ seg = None
    THEN [i \in 1..Len(detections) |-> None]
    ELSE <<>>

\* Mutant: without a segmenter the list is left empty.
Masks_EmptyWhenUnready(seg, segmentation, detections, outcomes) ==
    IF segmentation /\ seg # None
    THEN [i \in 1..Len(detections) |-> MaskEntry(detections[i], outcomes[i])]
    ELSE <<>>

\* Mutant: the first failure ends the loop; the detections after it get null.
Masks_StopAtFailure(seg, segmentation, detections, outcomes) ==
    IF segmentation /\ seg # None
    THEN [i \in 1..Len(detections) |->
             IF \E j \in 1..i : MaskEntry(detections[j], outcomes[j]) = None
             THEN None
             ELSE MaskEntry(detections[i], outcomes[i])]
    ELSE IF segmentation /\ seg = None
    THEN [i \in 1..Len(detections) |-> None]
    ELSE <<>>

\* masks_base64 (lines 169-182)
Masks(seg, segmentation, detections, outcomes) ==
    IF segmentation /\ seg # None
    THEN [i \in 1..Len(detections) |-> MaskEntry(detections[i], outcomes[i])]
    ELSE IF segmentation /\ seg = None
    THEN [i \in 1..Len(detections) |-> None]
    ELSE <<>>

\* The calls of segmenter.segment, in order (line 174): the box handed over
\* and what the segmenter did with it.
SegmentCalls(seg, segmentation, detections, outcomes) ==
    IF segmentation /\ seg # None
    THEN [i \in 1..Len(detections) |->
             [bbox |-> detections[i].bbox, outcome |-> outcomes[i]]]
    ELSE <<>>

\* Mutant: nothing found is reported as a failure.
EmptyResult_NotSuccess ==
    [success |-> FALSE, detections |-> <<>>, count |-> 0]

\* The early return for an empty detection list (lines 155-160).
EmptyResult ==
    [success |-> TRUE, detections |-> <<>>, count |-> 0]

\* Mutant: the masks key is added whether or not segmentation was requested.
BuildResponse_AlwaysMasks(mapped_detections, segmentation, masks_base64) ==
    [success    |-> TRUE,
     detections |-> mapped_detections,
     count      |-> Len(mapped_detections),
     masks      |-> masks_base64]

\* The response dict (lines 185-193).
BuildResponse(mapped_detections, segmentation, masks_base64) ==
    LET base == [success    |-> TRUE,
                 detections |-> mapped_detections,
                 count      |-> Len(mapped_detections)]
    IN  IF segmentation THEN base @@ [masks |-> masks_base64] ELSE base

\* mapper.map_detection over everything the detector can report; the
\* mapper is a pure function, so the table is computed once.
mapper_table == { <<d, map_detection(d)>> : d \in Detections }

mapper_map_detection(d) == (CHOOSE p \in mapper_table : p[1] = d)[2]

\* The try block (lines 150-200) run on image_data with the globals as they
\* are now; `found` is what detector.detect does and `outcomes` what
\* segmenter.segment does for each detection.
RunDetection(det, seg, image_data, segmentation, found, outcomes) ==
    IF det = None
    THEN [response |-> HTTPException(500, "Detection failed: 'NoneType' object has no attribute 'detect'"),
          calls    |-> NoCalls]
    ELSE IF found.raised
    THEN [response |-> HTTPException(500, "Detection failed: ..."),
          calls    |-> [NoCalls EXCEPT !.detect = 1, !.raised = TRUE]]
    ELSE IF found.detections = <<>>
    THEN [response |-> [endpoint |-> "/detect", status |-> 200,
                        body |-> EmptyResult],
          calls    |-> [NoCalls EXCEPT !.detect = 1]]
    ELSE LET detections == found.detections
             mapped_detections ==
                 [i \in 1..Len(detections) |-> mapper_map_detection(detections[i])]
             masks_base64 == Masks(seg, segmentation, detections, outcomes)
         IN  [response |-> [endpoint |-> "/detect", status |-> 200,
                            body |-> BuildResponse(mapped_detections,
                                                   segmentation, masks_base64)],
              calls    |-> [detect   |-> 1,
                            raised   |-> FALSE,
                            detected |-> detections,
                            map      |-> [i \in 1..Len(detections) |->
                                             detections[i].class_name],
                            segment  |-> SegmentCalls(seg, segmentation,
                                                      detections, outcomes)]]

\* Lines 147-200: `if not image_data` and then the try block.
Finish(det, seg, image_data, segmentation, found, outcomes) ==
    IF image_data = EmptyBytes
    THEN [response |-> HTTPException(400, "Failed to decode image"),
          calls    |-> NoCalls]
    ELSE RunDetection(det, seg, image_data, segmentation, found, outcomes)

\* What the segmenter does for each detection found, when the loop of lines
\* 170-179 calls it; otherwise it is not called and does nothing.
OutcomeLists(seg, segmentation, found) ==
    IF segmentation /\ seg # None
    THEN [1..Len(found.detections) -> SegmentOutcomes]
    ELSE { <<>> }

\* ---------------------------------------------------------------- main.py: lifespan
Init ==
    /\ phase = "created"
    /\ detector = None
    /\ segmenter = None
    /\ pc = "idle"
    /\ req = NoRequest
    /\ calls = NoCalls
    /\ response = NoResponse
    /\ given = None
    /\ mapped = None
    /\ previous = None
    /\ segment_args = None
    /\ segment_result = None

\* Mutant: a segmenter that fails to load takes the detector with it.
Startup_SegmenterFailureAborts(denv, senv, cuda) ==
    /\ phase = "created"
    /\ phase' = "serving"
    /\ detector' = IF SAM2Segmenter(senv, cuda) = None
                   THEN None
                   ELSE YOLOv10Detector(denv, cuda)
    /\ segmenter' = SAM2Segmenter(senv, cuda)
    /\ UNCHANGED <<pc, req, calls, response, mapper_vars, segment_vars>>

\* lifespan up to its yield (lines 34-48): each constructor either gives the
\* model object or raises, and a raise leaves the global None.
Startup(denv, senv, cuda) ==
    /\ phase = "created"
    /\ phase' = "serving"
    /\ detector' = YOLOv10Detector(denv, cuda)
    /\ segmenter' = SAM2Segmenter(senv, cuda)
    /\ UNCHANGED <<pc, req, calls, response, mapper_vars, segment_vars>>

\* lifespan after its yield (lines 52-55).  A response already sent is taken
\* by the client first.
Shutdown ==
    /\ phase = "serving"
    /\ response = NoResponse
    /\ phase' = "stopped"
    /\ detector' = None
    /\ segmenter' = None
    /\ UNCHANGED <<pc, req, calls, response, mapper_vars, segment_vars>>

\* Mutant: detect_waste with the input validated before the readiness check.
DetectWaste_ValidateFirst(image, image_base64, segmentation) ==
    /\ phase = "serving"
    /\ pc = "idle"
    /\ response = NoResponse
    /\ req' = [endpoint |-> "/detect", image |-> image,
               image_base64 |-> image_base64, segmentation |-> segmentation]
    /\ LET input == ReadInput(image, image_base64)
       IN  IF input.kind = "error"
           THEN /\ response' = input.error
                /\ calls' = NoCalls
                /\ pc' = "idle"
           ELSE IF DetectorMissing(detector)
           THEN /\ response' = HTTPException(503, "Detector not loaded. Check server logs.")
                /\ calls' = NoCalls
                /\ pc' = "idle"
           ELSE IF input.kind = "await"
           THEN /\ response' = NoResponse
                /\ calls' = NoCalls
                /\ pc' = "reading"
           ELSE \E found \in detect(input.image_data) :
                \E outcomes \in OutcomeLists(segmenter, segmentation, found) :
                   LET r == Finish(detector, segmenter, input.image_data,
                                   segmentation, found, outcomes)
                   IN  /\ response' = r.response
                       /\ calls' = r.calls
                       /\ pc' = "idle"
    /\ UNCHANGED <<phase, detector, segmenter, mapper_vars, segment_vars>>

\* ---------------------------------------------------------------- main.py: handlers
\* detect_waste from its first line to its first suspension or to its end
\* (lines 123-200): with an upload it suspends at `await image.read()`;
\* with a base64 field it runs to completion.
DetectWaste(image, image_base64, segmentation) ==
    /\ phase = "serving"
    /\ pc = "idle"
    /\ response = NoResponse
    /\ req' = [endpoint |-> "/detect", image |-> image,
               image_base64 |-> image_base64, segmentation |-> segmentation]
    /\ IF DetectorMissing(detector)
       THEN /\ response' = HTTPException(503, "Detector not loaded. Check server logs.")
            /\ calls' = NoCalls
            /\ pc' = "idle"
       ELSE LET input == ReadInput(image, image_base64)
            IN  IF input.kind = "await"
                THEN /\ response' = NoResponse
                     /\ calls' = NoCalls
                     /\ pc' = "reading"
                ELSE IF input.kind = "error"
                THEN /\ response' = input.error
                     /\ calls' = NoCalls
                     /\ pc' = "idle"
                ELSE \E found \in detect(input.image_data) :
                     \E outcomes \in OutcomeLists(segmenter, segmentation, found) :
                        LET r == Finish(detector, segmenter, input.image_data,
                                        segmentation, found, outcomes)
                        IN  /\ response' = r.response
                            /\ calls' = r.calls
                            /\ pc' = "idle"
    /\ UNCHANGED <<phase, detector, segmenter, mapper_vars, segment_vars>>

\* detect_waste from the return of `await image.read()` to its end (lines
\* 133-200), reading the globals as they are by then.
DetectWasteResume ==
    /\ pc = "reading"
    /\ response = NoResponse
    /\ \E found \in detect(req.image.content) :
       \E outcomes \in OutcomeLists(segmenter, req.segmentation, found) :
          LET r == Finish(detector, segmenter, req.image.content,
                          req.segmentation, found, outcomes)
          IN  /\ response' = r.response
              /\ calls' = r.calls
    /\ pc' = "idle"
    /\ UNCHANGED <<phase, detector, segmenter, req, mapper_vars, segment_vars>>

\* GET / (lines 75-84)
Root ==
    /\ phase = "serving"
    /\ response = NoResponse
    /\ response' = [endpoint |-> "/", status |-> 200,
                    body |-> [service |-> "EcoVision AI Service",
                              version |-> "2.0.0",
                              status  |-> "online",
                              detector_ready  |-> detector # None,
                              segmenter_ready |-> segmenter # None]]
    /\ UNCHANGED <<phase, detector, segmenter, pc, req, calls, mapper_vars, segment_vars>>

\* Mutant: the health check drops the segmenter.
Health_DropsSegmenter ==
    /\ phase = "serving"
    /\ response = NoResponse
    /\ response' = [endpoint |-> "/health", status |-> 200,
                    body |-> [ok |-> TRUE,
                              detector |->
                                  [loaded |-> detector # None,
                                   model  |-> IF detector # None
                                              THEN detector.model_name
                                              ELSE NoneStr,
                                   device |-> IF detector # None
                                              THEN detector.device
                                              ELSE NoneStr],
                              segmenter |-> [loaded |-> segmenter # None]]]
    /\ segmenter' = None
    /\ UNCHANGED <<phase, detector, pc, req, calls, mapper_vars, segment_vars>>

\* GET /health (lines 87-100)
Health ==
    /\ phase = "serving"
    /\ response = NoResponse
    /\ response' = [endpoint |-> "/health", status |-> 200,
                    body |-> [ok |-> TRUE,
                              detector |->
                                  [loaded |-> detector # None,
                                   model  |-> IF detector # None
                                              THEN detector.model_name
                                              ELSE NoneStr,
                                   device |-> IF detector # None
                                              THEN detector.device
                                              ELSE NoneStr],
                              segmenter |-> [loaded |-> segmenter # None]]]
    /\ UNCHANGED <<phase, detector, segmenter, pc, req, calls, mapper_vars, segment_vars>>

\* GET /classes (lines 203-209)
GetClasses ==
    /\ phase = "serving"
    /\ response = NoResponse
    /\ response' = [endpoint |-> "/classes", status |-> 200,
                    body |-> [classes |-> get_all_classes,
                              count   |-> Len(get_all_classes)]]
    /\ UNCHANGED <<phase, detector, segmenter, pc, req, calls, mapper_vars, segment_vars>>

\* The client takes the response; nothing of the exchange is kept.
Consume ==
    /\ response # NoResponse
    /\ response' = NoResponse
    /\ IF pc = "idle"
       THEN req' = NoRequest /\ calls' = NoCalls
       ELSE UNCHANGED <<req, calls>>
    /\ UNCHANGED <<phase, detector, segmenter, pc, mapper_vars, segment_vars>>

Next ==
    \/ \E denv \in DetectorEnvs, senv \in SegmenterEnvs, cuda \in BOOLEAN :
            Startup(denv, senv, cuda)
    \/ Shutdown
    \/ \E source \in ImageSources, segmentation \in BOOLEAN :
            DetectWaste(source.image, source.image_base64, segmentation)
    \/ DetectWasteResume
    \/ Root
    \/ Health
    \/ GetClasses
    \/ Consume

Spec == Init /\ [][Next]_vars

\* ---------------------------------------------------------------- WasteMapper alone
\* A label with the letters at the positions U in upper case.
UpperAt(s, U) == [i \in 1..Len(s) |-> IF i \in U THEN UpperChar(s[i]) ELSE s[i]]

\* The spellings of a key with at most MaxUpper upper-case letters, and the
\* one all in upper case.
CaseVariants(s) ==
    { UpperAt(s, U) : U \in { V \in SUBSET (1..Len(s)) : Cardinality(V) <= MaxUpper } }
        \cup { UpperAt(s, 1..Len(s)) }

\* <<i, label>>: label is a spelling of the i-th key of class_mapping.
KeySpellings ==
    UNION { { <<i, v>> : v \in CaseVariants(class_mapping[i].key) } :
               i \in 1..Len(class_mapping) }

\* Labels that are no key of the table: the empty label, labels no key
\* matches, and labels matched by containment only.
LabelSpaceship == <<"s", "p", "a", "c", "e", "s", "h", "i", "p">>
LabelPerson == <<"p", "e", "r", "s", "o", "n">>
LabelCar == <<"c", "a", "r">>
LabelWineGlass == <<"w", "i", "n", "e", " ", "g", "l", "a", "s", "s">>
LabelPlastic == <<"p", "l", "a", "s", "t", "i", "c">>
LabelGlassBottleSpaced == <<"G", "l", "a", "s", "s", " ", "B", "o", "t", "t", "l", "e">>
LabelTinCan == <<"t", "i", "n", " ", "c", "a", "n">>
OtherLabels ==
    { <<>>, LabelSpaceship, LabelPerson, LabelCar, LabelWineGlass, LabelPlastic, LabelGlassBottleSpaced, LabelTinCan }

Labels == { p[2] : p \in KeySpellings } \cup OtherLabels

\* A dict with no keys.
EmptyDict == [k \in {} |-> None]

\* Detection dicts: as the detector builds them (detector.py lines 168-173),
\* with the label alone, without a label, and empty.
DetectionDicts ==
    { [bbox |-> <<10, 10, 50, 50>>, confidence |-> 90, class_id |-> 41,
       class_name |-> l] : l \in Labels } \cup
    { [class_name |-> l] : l \in Labels } \cup
    { [bbox |-> <<10, 10, 50, 50>>, confidence |-> 90, class_id |-> 41],
      EmptyDict }

MapInit ==
    /\ phase = "created"
    /\ detector = None
    /\ segmenter = None
    /\ pc = "idle"
    /\ req = NoRequest
    /\ calls = NoCalls
    /\ response = NoResponse
    /\ given \in DetectionDicts
    /\ mapped = None
    /\ previous = None
    /\ segment_args = None
    /\ segment_result = None

\* mapper.map_detection(given), called again and again.
MapDetection ==
    /\ mapped' = map_detection(given)
    /\ previous' = mapped
    /\ UNCHANGED <<server_vars, given, segment_vars>>

MapNext == MapDetection

MapSpec == MapInit /\ [][MapNext]_vars

\* ---------------------------------------------------------------- SAM2Segmenter.segment alone
\* self.predictor: None, a SAM predictor (it has set_image), or an object of
\* another API.
Predictors == {None, [api |-> "set_image"], [api |-> "other"]}
Predictions == {"mask", "raise", "no_mask", "malformed"}

SegmentArgs ==
    [ self       : [predictor : Predictors],
      image_data : ByteStrings \cup {WideImageBytes},
      bbox       : BBoxes,
      prediction : Predictions ]

SegInit ==
    /\ phase = "created"
    /\ detector = None
    /\ segmenter = None
    /\ pc = "idle"
    /\ req = NoRequest
    /\ calls = NoCalls
    /\ response = NoResponse
    /\ given = None
    /\ mapped = None
    /\ previous = None
    /\ segment_args \in SegmentArgs
    /\ segment_result = None

Segment ==
    /\ segment_result = None
    /\ segment_result' = SAM2Segmenter_segment(segment_args.self,
                                                segment_args.image_data,
                                                segment_args.bbox,
                                                segment_args.prediction)
    /\ UNCHANGED <<server_vars, mapper_vars, segment_args>>

SegNext == Segment

SegSpec == SegInit /\ [][SegNext]_vars

\* ---------------------------------------------------------------- properties
\* The 8 waste categories of the data model.
WasteCategories ==
    { "plastic_bottle", "plastic_wrapper", "paper_cup", "food_waste",
      "glass_bottle", "metal_can", "cardboard_box", "cloth" }

\* The response in hand is the answer to a /detect request.
DetectDone == response.endpoint = "/detect"
DetectOk == DetectDone /\ response.status = 200
HasMasks == DetectOk /\ "masks" \in DOMAIN response.body

\* The segmenter outcomes that leave no mask: segment or the encoding raised.
FailedOutcomes == {"raise", "malformed"}

\* The request carries an image the detector can open.
ValidImage(r) ==
    IF r.image # None
    THEN r.image.content = ImageBytes
    ELSE /\ TruthyStr(r.image_base64)
         /\ ~decode_image(r.image_base64).raised
         /\ decode_image(r.image_base64).bytes = ImageBytes

\* The request carries non-empty bytes that are no image.
MalformedImage(r) ==
    IF r.image # None
    THEN r.image.content = JunkBytes
    ELSE /\ TruthyStr(r.image_base64)
         /\ ~decode_image(r.image_base64).raised
         /\ decode_image(r.image_base64).bytes = JunkBytes

\* C1: in every successful /detect response that has a masks list, the list
\* is as long as detections, masks[i] is null or the mask computed for the
\* box of detections[i], and a mask that failed is the null at its own index.
C1_MasksAligned ==
    HasMasks =>
        LET b == response.body
        IN  /\ Len(b.masks) = Len(b.detections)
            /\ \A i \in 1..Len(b.masks) :
                  \/ b.masks[i] = None
                  \/ b.masks[i].png.bbox = b.detections[i].bbox
            /\ \A i \in 1..Len(calls.segment) :
                  calls.segment[i].outcome \in FailedOutcomes
                      => (i <= Len(b.masks) /\ b.masks[i] = None)

\* C1 witness: two detections with different boxes, the first mask failed
\* (null at index 1) and the second is the mask of the second box.
C1_Witness ==
    /\ HasMasks
    /\ Len(response.body.masks) = 2
    /\ response.body.detections[1].bbox # response.body.detections[2].bbox
    /\ response.body.masks[1] = None
    /\ response.body.masks[2] # None
    /\ response.body.masks[2].png.bbox = response.body.detections[2].bbox

\* C2: in every successful /detect response the masks key is present iff
\* segmentation was requested, with masks == [] when nothing was detected.
C2_MasksKeyIffRequested ==
    DetectOk =>
        /\ ("masks" \in DOMAIN response.body) <=> req.segmentation
        /\ (req.segmentation /\ response.body.count = 0)
               => response.body.masks = <<>>

\* C3: segmentation requested, segmenter not loaded, n >= 1 detections: the
\* request succeeds, masks has n entries, all null, and segment is never
\* called.
C3_SegmenterUnready ==
    (/\ DetectDone
     /\ req.segmentation
     /\ segmenter = None
     /\ Len(calls.detected) >= 1)
    => /\ response.status = 200
       /\ "masks" \in DOMAIN response.body
       /\ Len(response.body.masks) = Len(calls.detected)
       /\ \A i \in 1..Len(response.body.masks) : response.body.masks[i] = None
       /\ calls.segment = <<>>

\* C3 witness: two detections, segmenter not loaded, masks == [null, null].
C3_Witness ==
    /\ DetectOk
    /\ req.segmentation
    /\ segmenter = None
    /\ Len(calls.detected) = 2
    /\ response.body.masks = <<None, None>>

\* C4: segmentation requested and segmenter loaded: a failure for detection
\* i is the null at index i only, every other mask is produced, every
\* detection is handed to segment, and the request succeeds with all the
\* mapped detections.
C4_FailureIsolated ==
    (/\ DetectDone
     /\ req.segmentation
     /\ segmenter # None
     /\ Len(calls.detected) >= 1)
    => LET n == Len(calls.detected)
       IN  /\ response.status = 200
           /\ Len(response.body.detections) = n
           /\ "masks" \in DOMAIN response.body
           /\ Len(response.body.masks) = n
           /\ Len(calls.segment) = n
           /\ \A i \in 1..n :
                 /\ calls.segment[i].bbox = calls.detected[i].bbox
                 /\ IF calls.segment[i].outcome \in FailedOutcomes
                    THEN response.body.masks[i] = None
                    ELSE /\ response.body.masks[i] # None
                         /\ response.body.masks[i].png =
                                MaskOf(calls.segment[i].outcome,
                                       calls.detected[i].bbox)

\* C4 witness: segment raised for the first of two detections; the second
\* was still segmented and has its mask.
C4_Witness ==
    /\ DetectOk
    /\ req.segmentation
    /\ segmenter # None
    /\ Len(calls.segment) = 2
    /\ calls.segment[1].outcome = "raise"
    /\ calls.segment[2].outcome = "object"
    /\ response.body.masks[1] = None
    /\ response.body.masks[2] # None

\* C5: detector loaded, neither an upload nor a (non-empty) image_base64:
\* the answer is 400 with a detail, and nothing was invoked.
C5_NoImage400 ==
    (/\ DetectDone
     /\ phase = "serving"
     /\ detector # None
     /\ req.image = None
     /\ ~TruthyStr(req.image_base64))
    => /\ response.status = 400
       /\ response.body.detail # ""
       /\ calls = NoCalls

\* C5 witness: an empty image_base64 string and no upload, answered 400.
C5_Witness ==
    /\ DetectDone
    /\ phase = "serving"
    /\ detector # None
    /\ req.image = None
    /\ req.image_base64 = EmptyStr
    /\ response.status = 400

\* C6: detector not loaded: a /detect request with a valid image is answered
\* 503 and nothing was invoked.
C6_DetectorNotReady503 ==
    (/\ DetectDone
     /\ phase = "serving"
     /\ detector = None
     /\ ValidImage(req))
    => /\ response.status = 503
       /\ response.status \notin {400, 500}
       /\ calls = NoCalls

\* C6 witness: a valid upload answered 503 while the detector is not loaded.
C6_Witness ==
    /\ DetectDone
    /\ phase = "serving"
    /\ detector = None
    /\ req.image # None
    /\ ValidImage(req)
    /\ response.status = 503

\* C7: detector loaded, non-empty bytes that are no image: the answer is
\* 400, never 500, and the detector was not called.
C7_MalformedImage400 ==
    (/\ DetectDone
     /\ phase = "serving"
     /\ detector # None
     /\ MalformedImage(req))
    => /\ response.status = 400
       /\ calls.detect = 0

\* C8: a label that is a spelling, in any letter case, of a key of the
\* synonym table is mapped to the category the table gives that key, on
\* every call.
C8_SynonymExact ==
    (mapped # None /\ "class_name" \in DOMAIN given)
    => /\ \A p \in KeySpellings :
             p[2] = given.class_name
                 => mapped.class = class_mapping[p[1]].value
       /\ previous # None => previous = mapped

\* C8 witness: "GLass_bottle", mapped twice to glass_bottle, although the
\* earlier key "bottle" is contained in it.
C8_Witness ==
    /\ mapped # None
    /\ previous # None
    /\ "class_name" \in DOMAIN given
    /\ given.class_name =
           <<"G", "L", "a", "s", "s", "_", "b", "o", "t", "t", "l", "e">>
    /\ mapped.class = "glass_bottle"

\* No key of the table is the label, is in the label or has the label in it.
NoMatch(label) ==
    \A i \in 1..Len(class_mapping) :
        /\ ~Contains(class_mapping[i].key, lower(label))
        /\ ~Contains(lower(label), class_mapping[i].key)

\* C9: map_detection always returns a detection of one of the 8 categories;
\* a label nothing matches, the empty label and the missing label give
\* plastic_bottle.
C9_AlwaysACategory ==
    mapped # None =>
        /\ mapped.class \in WasteCategories
        /\ ("class_name" \notin DOMAIN given) => mapped.class = "plastic_bottle"
        /\ ("class_name" \in DOMAIN given /\ given.class_name = <<>>)
               => mapped.class = "plastic_bottle"
        /\ ("class_name" \in DOMAIN given /\ NoMatch(given.class_name))
               => mapped.class = "plastic_bottle"

\* C9 witness: "spaceship" mapped to plastic_bottle.
C9_Witness ==
    /\ mapped # None
    /\ "class_name" \in DOMAIN given
    /\ given.class_name = LabelSpaceship
    /\ NoMatch(given.class_name)
    /\ mapped.class = "plastic_bottle"

\* A mapped detection carries the table's entries of one of the 8
\* categories, never the generic fallbacks.
FromCategoryTable(d) ==
    /\ d.class \in WasteCategories
    /\ DictHas(disposal_instructions, d.class)
    /\ d.disposal = DictGet(disposal_instructions, d.class, "")
    /\ d.disposal \notin {"", "Check local guidelines."}
    /\ DictHas(reuse_ideas, d.class)
    /\ d.ideas = DictGet(reuse_ideas, d.class, <<>>)
    /\ Len(d.ideas) = 3
    /\ DictHas(dustbin_mapping, d.class)
    /\ d.dustbin = DictGet(dustbin_mapping, d.class, "")

\* C10: GET /classes answers the 8 categories and count 8; each has a
\* disposal text, 3 reuse ideas and a bin; every category the synonym table
\* or the default gives is one of them, and every mapped detection of a
\* response carries the table's entries.
C10_CategoryTable ==
    /\ response.endpoint = "/classes"
           => /\ response.body.count = 8
              /\ Len(response.body.classes) = 8
              /\ { response.body.classes[i] : i \in 1..8 } = WasteCategories
    /\ \A c \in WasteCategories :
           /\ DictGet(disposal_instructions, c, "") # ""
           /\ Len(DictGet(reuse_ideas, c, <<>>)) = 3
           /\ DictGet(dustbin_mapping, c, "") # ""
    /\ \A i \in 1..Len(class_mapping) : class_mapping[i].value \in WasteCategories
    /\ DefaultClass \in WasteCategories
    /\ DetectOk
           => \A i \in 1..Len(response.body.detections) :
                  FromCategoryTable(response.body.detections[i])

\* C10 witness: the answer of GET /classes, with count 8.
C10_Witness ==
    /\ response.endpoint = "/classes"
    /\ response.body.count = 8
    /\ response.body.classes[8] = "cloth"
\* C11: in every successful /detect response count is the length of
\* detections, which is the number of detections the detector returned;
\* detections[i] is the mapping of the detector's i-th detection with its
\* bbox, confidence and class_id unchanged; without segmentation there is no
\* masks key.
C11_ResponseShape ==
    DetectOk =>
        LET b == response.body
        IN  /\ calls.detect = 1
            /\ ~calls.raised
            /\ b.count = Len(b.detections)
            /\ Len(b.detections) = Len(calls.detected)
            /\ \A i \in 1..Len(b.detections) :
                  /\ b.detections[i] = map_detection(calls.detected[i])
                  /\ b.detections[i].bbox = calls.detected[i].bbox
                  /\ b.detections[i].confidence = calls.detected[i].confidence
                  /\ b.detections[i].class_id = calls.detected[i].class_id
                  /\ calls.map[i] = calls.detected[i].class_name
            /\ ~req.segmentation => "masks" \notin DOMAIN b

\* C11 witness: two detections of different classes and boxes, no
\* segmentation: count 2, no masks key, the second detection is the mapping
\* of the detector's second.
C11_Witness ==
    /\ DetectOk
    /\ ~req.segmentation
    /\ response.body.count = 2
    /\ "masks" \notin DOMAIN response.body
    /\ calls.detected[1].class_id # calls.detected[2].class_id
    /\ calls.detected[1].bbox # calls.detected[2].bbox
    /\ response.body.detections[2].bbox = calls.detected[2].bbox
    /\ response.body.detections[1].class # response.body.detections[2].class

\* C13: the detector returned no detection: the answer is a success with
\* count 0 and detections [], and neither the mapper nor the segmenter was
\* invoked, with or without segmentation, with or without a segmenter.
C13_NothingDetected ==
    (/\ DetectDone
     /\ calls.detect = 1
     /\ ~calls.raised
     /\ calls.detected = <<>>)
    => /\ response.status = 200
       /\ response.body.success = TRUE
       /\ response.body.count = 0
       /\ response.body.detections = <<>>
       /\ calls.map = <<>>
       /\ calls.segment = <<>>

\* C13 witness: nothing detected, segmentation requested, segmenter loaded.
C13_Witness ==
    /\ DetectOk
    /\ calls.detect = 1
    /\ calls.detected = <<>>
    /\ req.segmentation
    /\ segmenter # None
    /\ response.body.count = 0
\* What detect_waste answers to the request r when the globals are det and
\* seg throughout and the models did for it what c records: a function of
\* the request, the globals and the models' outputs alone.
DetectAnswer(r, det, seg, c) ==
    IF DetectorMissing(det)
    THEN HTTPException(503, "Detector not loaded. Check server logs.")
    ELSE LET input == ReadInput(r.image, r.image_base64)
         IN  IF input.kind = "error"
             THEN input.error
             ELSE Finish(det, seg,
                         IF input.kind = "await" THEN r.image.content
                                                 ELSE input.image_data,
                         r.segmentation,
                         [raised |-> c.raised, detections |-> c.detected],
                         [i \in 1..Len(c.segment) |-> c.segment[i].outcome]).response

\* C12: while the service serves, no step changes the detector or the
\* segmenter global; the classes served are always those of the mapper's
\* table; between two requests nothing of the earlier exchange is left; and
\* the answer of every /detect request handled while serving is the function
\* DetectAnswer of that request, the globals and the models' outputs for it.
C12_NoStateRetained ==
    /\ [][(phase = "serving" /\ phase' = "serving")
            => (detector' = detector /\ segmenter' = segmenter)]_vars
    /\ [](response.endpoint = "/classes"
            => response.body.classes = get_all_classes)
    /\ []((phase = "serving" /\ pc = "idle" /\ response = NoResponse)
            => (req = NoRequest /\ calls = NoCalls))
    /\ []((DetectDone /\ phase = "serving")
            => response = DetectAnswer(req, detector, segmenter, calls))

\* C12 witness: a /detect request answered with two detections and their
\* masks while both models stay loaded.
C12_Witness ==
    /\ DetectOk
    /\ phase = "serving"
    /\ detector # None
    /\ segmenter # None
    /\ req.segmentation
    /\ response.body.count = 2
    /\ response = DetectAnswer(req, detector, segmenter, calls)
\* The input of the request r does not pass lines 129-148: no source at all,
\* a base64 field that does not decode, or no bytes.
InputRejected(r) ==
    IF r.image # None
    THEN r.image.content = EmptyBytes
    ELSE LET input == ReadInput(r.image, r.image_base64)
         IN  \/ input.kind = "error"
             \/ input.kind = "data" /\ input.image_data = EmptyBytes

\* C14 as stated: a request whose input is missing or invalid is answered
\* 400 whether or not the detector is loaded, and 503 is only given to
\* requests whose input passed validation.
C14_ValidationBeforeReadiness ==
    DetectDone =>
        /\ InputRejected(req) => response.status = 400
        /\ response.status = 503 => ~InputRejected(req)

\* C14 amended: the readiness check comes first.  While the service serves,
\* a request that finds no detector is answered 503 whatever its input and
\* nothing is invoked; 400 is the answer to rejected input only when the
\* detector is loaded; detection runs only with a detector and with input
\* that passed validation.
C14_ReadinessBeforeValidation ==
    (DetectDone /\ phase = "serving") =>
        /\ detector = None => (response.status = 503 /\ calls = NoCalls)
        /\ (detector # None /\ InputRejected(req))
              => (response.status = 400 /\ calls = NoCalls)
        /\ response.status = 400 => (detector # None /\ InputRejected(req))
        /\ response.status = 503 => detector = None
        /\ calls.detect = 1 => (detector # None /\ ~InputRejected(req))

\* C14 witness: no detector, a request without any image, answered 503.
C14_Witness ==
    /\ DetectDone
    /\ phase = "serving"
    /\ detector = None
    /\ req.image = None
    /\ req.image_base64 = None
    /\ InputRejected(req)
    /\ response.status = 503
\* The request r carries an uploaded file and a base64 field.
BothSources(r) == r.image # None /\ TruthyStr(r.image_base64)

KeyMatches(i, l) ==
    \/ Contains(class_mapping[i].key, l)
    \/ Contains(l, class_mapping[i].key)

\* C16: when the lowercased label is no key of the synonym table, the
\* category returned is that of the first key, in table order, that matches
\* by containment, whatever later keys match too: "Glass Bottle" is decided
\* by "bottle" and not "glass", "plastic" by "plastic_bottle", "tin can" by
\* "can".
C16_FirstContainment ==
    (mapped # None /\ "class_name" \in DOMAIN given) =>
        LET l == lower(given.class_name)
        IN  /\ ~DictHas(class_mapping, l) =>
                  \A i \in 1..Len(class_mapping) :
                      (KeyMatches(i, l) /\ \A j \in 1..(i - 1) : ~KeyMatches(j, l))
                          => mapped.class = class_mapping[i].value
            /\ given.class_name = LabelGlassBottleSpaced
                  => mapped.class = "plastic_bottle"
            /\ given.class_name = LabelPlastic => mapped.class = "plastic_bottle"
            /\ given.class_name = LabelTinCan => mapped.class = "metal_can"
            /\ given.class_name = LabelCar => mapped.class = "cardboard_box"
            /\ given.class_name = LabelWineGlass => mapped.class = "glass_bottle"

\* C16 witness: "Glass Bottle" is no key, the keys "bottle" (1st) and
\* "glass" (20th) are both in it, and the category is that of "bottle".
C16_Witness ==
    /\ mapped # None
    /\ "class_name" \in DOMAIN given
    /\ given.class_name = LabelGlassBottleSpaced
    /\ ~DictHas(class_mapping, lower(given.class_name))
    /\ KeyMatches(1, lower(given.class_name))
    /\ KeyMatches(20, lower(given.class_name))
    /\ class_mapping[20].value = "glass_bottle"
    /\ mapped.class = "plastic_bottle"
\* The internal failures of a segment call: no predictor, bytes that are no
\* image, a predictor without set_image, a prediction that raises or gives
\* no mask.
SegmentFailure(a) ==
    \/ a.self.predictor = None
    \/ ~IsImage(a.image_data)
    \/ a.self.predictor.api # "set_image"
    \/ a.prediction \in {"raise", "no_mask"}

\* C17 as stated: segment never raises, and on every internal failure it
\* returns the all-zero mask of the image's height and width.
C17_NeverPropagates ==
    segment_result # None =>
        /\ ~segment_result.raised
        /\ SegmentFailure(segment_args) =>
              /\ segment_result.mask.kind = "zeros"
              /\ segment_result.shape = ImageSize(segment_args.image_data)

\* C17 amended: segment raises exactly when the predictor is missing
\* (RuntimeError) or the bytes are no image (the error of Image.open); with
\* a predictor and an image, a predictor of an unrecognized API and a
\* prediction that fails give the all-zero mask of the image's height and
\* width, and a prediction that succeeds gives its mask, of that size too.
C17_ZeroMaskInsideTry ==
    segment_result # None =>
        LET a == segment_args
            r == segment_result
        IN  /\ r.raised <=> (a.self.predictor = None \/ ~IsImage(a.image_data))
            /\ a.self.predictor = None => r.error = "RuntimeError"
            /\ (~r.raised /\ SegmentFailure(a)) =>
                  /\ r.mask.kind = "zeros"
                  /\ r.shape = ImageSize(a.image_data)
            /\ (~r.raised /\ a.self.predictor.api = "set_image"
                    /\ a.prediction = "mask") =>
                  /\ r.mask = MaskOf("object", a.bbox)
                  /\ r.shape = ImageSize(a.image_data)

\* C17 witness: a prediction that raises on the wide image gives the zero
\* mask of 480 x 640.
C17_Witness ==
    /\ segment_result # None
    /\ segment_args.self.predictor # None
    /\ segment_args.image_data = WideImageBytes
    /\ segment_args.prediction = "raise"
    /\ ~segment_result.raised
    /\ segment_result.mask.kind = "zeros"
    /\ segment_result.shape = <<480, 640>>
\* The preferred and the secondary load succeed in the environment env.
PreferredLoads(env) ==
    /\ env.weights
    /\ env.ultralytics
    /\ \/ env.yolo = "ok"
       \/ env.yolo = "raise" /\ env.yolov10_class = "ok"
SecondaryLoads(env) == env.ultralytics /\ env.yolov8 = "ok"

\* The detector d is what the fallback protocol gives in env.
LoadProtocol(env, d) ==
    IF PreferredLoads(env)
    THEN d # None /\ d.model = "yolov10e.pt" /\ d.model_name = "yolov10e"
    ELSE IF SecondaryLoads(env)
    THEN d # None /\ d.model = "yolov8n.pt" /\ d.model_name = "yolov8n"
    ELSE d = None

\* C18: every startup leaves the detector the fallback protocol gives for
\* its environment: yolov10e if the preferred load succeeds, else yolov8n if
\* the secondary load succeeds, else no detector; a detector's model_name
\* always names the weights it holds; and while there is no detector every
\* /detect request is answered 503 without any detection.
C18_FallbackProtocol ==
    /\ [][(phase = "created" /\ phase' = "serving") =>
            \A denv \in DetectorEnvs, senv \in SegmenterEnvs, cuda \in BOOLEAN :
                Startup(denv, senv, cuda) => LoadProtocol(denv, detector')]_vars
    /\ [](detector # None =>
            <<detector.model, detector.model_name>> \in
                { <<"yolov10e.pt", "yolov10e">>, <<"yolov8n.pt", "yolov8n">> })
    /\ []((DetectDone /\ phase = "serving" /\ detector = None) =>
            (response.status = 503 /\ calls.detect = 0))

\* C18 witness: the service serves with the secondary model.
C18_Witness ==
    /\ phase = "serving"
    /\ detector # None
    /\ detector.model = "yolov8n.pt"
    /\ detector.model_name = "yolov8n"
\* The segmenter loads in the environment env: the weights are there and
\* SAM2, or SAM v1 when SAM2 is not installed, builds a predictor.
SegmenterLoads(env) ==
    /\ env.weights
    /\ \/ env.sam2 = "ok"
       \/ env.sam2 = "missing" /\ env.sam1 = "ok"

\* C19: startup is possible for every combination of load outcomes and ends
\* serving; the detector is there exactly when one of its loads succeeds and
\* the segmenter exactly when its load succeeds, each whatever the other
\* did; and the flags of GET / and GET /health say whether each global is
\* there.
C19_IndependentStartup ==
    /\ [](phase = "created" =>
            \A denv \in DetectorEnvs, senv \in SegmenterEnvs, cuda \in BOOLEAN :
                ENABLED Startup(denv, senv, cuda))
    /\ [][(phase = "created" /\ phase' = "serving") =>
            \A denv \in DetectorEnvs, senv \in SegmenterEnvs, cuda \in BOOLEAN :
                Startup(denv, senv, cuda) =>
                    /\ (detector' # None)
                          <=> (PreferredLoads(denv) \/ SecondaryLoads(denv))
                    /\ (segmenter' # None) <=> SegmenterLoads(senv)]_vars
    /\ [][phase = "created" => phase' \in {"created", "serving"}]_vars
    /\ [](response.endpoint = "/" =>
            /\ response.status = 200
            /\ response.body.detector_ready = (detector # None)
            /\ response.body.segmenter_ready = (segmenter # None))
    /\ [](response.endpoint = "/health" =>
            /\ response.status = 200
            /\ response.body.detector.loaded = (detector # None)
            /\ response.body.segmenter.loaded = (segmenter # None))

\* C19 witness: the segmenter failed to load, the detector is there, and
\* /health says so.
C19_Witness ==
    /\ phase = "serving"
    /\ response.endpoint = "/health"
    /\ detector # None
    /\ segmenter = None
    /\ response.body.detector.loaded
    /\ ~response.body.segmenter.loaded
\* C20: a /detect request that passed the readiness check is never answered
\* 500 for a detector that the teardown unloaded meanwhile: whenever a
\* /detect answer is in hand and the detector global is None, the answer is
\* not a 500.
C20_TeardownNeverCauses500 ==
    (DetectDone /\ detector = None) => response.status # 500
====
